---- MODULE Spec2Model ----
(***************************************************************************)
(* Ledger engine of the Ludik Gifts backend (src/app.py).                  *)
(*                                                                         *)
(* Every HTTP handler runs in its own SQLAlchemy session, i.e. in its own  *)
(* database transaction.  A handler is modelled as a request slot that     *)
(* steps through the statements at which it touches the database:          *)
(*   - SELECT ... FOR UPDATE waits until no other transaction holds the    *)
(*     row lock, then reads the committed row and keeps the lock;          *)
(*   - a plain SELECT reads the committed row without waiting;             *)
(*   - attribute assignments are kept in the session (fields of the slot)  *)
(*     and written as absolute values by the flush at db.commit();         *)
(*   - db.commit() publishes all writes in one step and releases the       *)
(*     locks; db.close() without commit rolls back and releases them.      *)
(* Row visibility is that of READ COMMITTED (every statement sees the      *)
(* latest committed rows).  Amounts are whole TON.                         *)
(***************************************************************************)
EXTENDS Integers, Sequences, FiniteSets, TLC

\* ------------------------------------------------------------------ bounds
MaxItems == 3
MaxBalance == 10
MaxStarted == 4
MaxSeeded == 2
MaxCurrent == 10
MaxRatio == 9
MaxPrice == 3
MaxPrizes == 2

\* ------------------------------------------------------- sets of the model
Users == {1, 2}
Req == {1, 2}
ItemIds == 1..MaxItems
TopupAmounts == {2, 5}

\* Accounts that may appear as referrers: the accounts of Users and one more.
\* The referral code of account a is written a; UnknownRefCode is a code that
\* no account has.
RefAccounts == Users \cup {3}
UnknownRefCode == 4
RefCodes == RefAccounts \cup {UnknownRefCode}
Multipliers == {1, 2, 3}

\* ------------------------------------------------ catalogue (static data)
\* A sample of UPDATED_FLOOR_PRICES: the entries with whole-TON values used
\* by the sampled case and as upgrade targets.
FloorPrice(name) ==
    CASE name = "Santa Hat" -> 2
      [] name = "Bow Tie"   -> 3
      [] name = "Top Hat"   -> 6
      [] OTHER              -> 0

NftNames == {"Santa Hat", "Bow Tie", "Top Hat"}

\* The desired_item_name values the modelled clients send.
DesiredNames == {"Bow Tie", "Top Hat"}

\* The case 'lolpop' of cases_data_backend: priceTON 2.0, and two of the
\* prizes of its calibrated table (both have positive probability).
CaseIds == {"lolpop"}
CasePrice(cid) == 2
CasePrizes(cid) == {"Santa Hat", "Bow Tie"}

\* Promo codes are rows of promo_codes; nothing in app.py inserts them, so
\* they are part of the initial database.
Codes == {"PROMO"}
PromoAmount(code) == 5

\* referral_earnings_pending is credited outside app.py (no handler writes a
\* positive value): the initial database holds one account with earnings.
PendingEarnings == 1

VARIABLES
    balance,      \* users.ton_balance, committed
    total_won,    \* users.total_won_ton, committed
    pending,      \* users.referral_earnings_pending, committed
    items,        \* inventory_items rows, committed, by id
    nextId,       \* the autoincrement sequence of inventory_items.id
    promo,        \* promo_codes.activations_left, committed, by code
    redemptions,  \* number of user_promo_code_redemptions rows per (user, code)
    ulock,        \* holder of the row lock on users[u], 0 when free
    ilock,        \* holder of the row lock on inventory_items[i], 0 when free
    plock,        \* holder of the row lock on promo_codes[c], 0 when free
    req,          \* the request slots: handler position and session contents
    started,      \* number of requests received so far
    ledger,       \* history: net amount of the credits and debits reported successful
    redeemedBy,   \* history: per item, the operations that reported consuming it
    redeemOK,     \* history: number of successful redemptions per (user, code)
    promo0,       \* history: activations_left of each code in the initial database
    exists,       \* users rows that are committed, by account id
    referrer,     \* users.referred_by_id, committed, 0 for NULL
    upg,          \* upgrade chance: the two values and the chance computed from them
    cal           \* calibrator: the case definition and the table computed from it

\* The handlers of the model take the tables as given and do not run the
\* two computations below on their own state.
pureVars == <<upg, cal>>
refVars == <<exists, referrer>>
dbVars == <<balance, total_won, pending, items, nextId, promo, redemptions,
            refVars>>
lockVars == <<ulock, ilock, plock>>
histVars == <<ledger, redeemedBy, redeemOK, promo0>>
vars == <<balance, total_won, pending, items, nextId, promo, redemptions,
          ulock, ilock, plock, req, started, ledger, redeemedBy, redeemOK, promo0, refVars, pureVars>>

\* ---------------------------------------------------------------- helpers
NoItem == [owner |-> 0, name |-> "-", value |-> 0, ton |-> FALSE]

Blank ==
    [op |-> "none", pc |-> "idle", uid |-> 0, amount |-> 0, cid |-> "-",
     mult |-> 0, item |-> 0, desired |-> "-", code |-> "-",
     bal |-> 0, won |-> 0, act |-> 0, k |-> 0, new |-> <<>>, sell |-> {},
     http |-> "-", ref |-> 0, created |-> FALSE, link |-> 0,
     notify |-> "-", raw |-> [kind |-> "none", text |-> "-", num |-> [n |-> 0, d |-> 1]],
     res |-> "-"]

\* The slot after the handler returned `result`: db.close() dropped the
\* session, and only the response is left.
Done(t, result) == [Blank EXCEPT !.pc = "done", !.res = result]

\* ------------------------------------------------------ Decimal arithmetic
\* A Decimal is an exact fraction [n, d] in lowest terms with d > 0.  Python
\* rounds Decimal results to 28 significant digits and the handlers convert
\* them to float (16 digits); the inputs below are chosen so that every
\* comparison made on them is decided by a margin far above those roundings.
RECURSIVE Gcd(_, _)
Gcd(a, b) == IF b = 0 THEN a ELSE Gcd(b, a % b)

Abs(a) == IF a < 0 THEN -a ELSE a

Frac(n, d) ==
    IF n = 0 THEN [n |-> 0, d |-> 1]
    ELSE LET g == Gcd(Abs(n), d) IN [n |-> n \div g, d |-> d \div g]

RInt(k) == [n |-> k, d |-> 1]
RAdd(a, b) == Frac(a.n * b.d + b.n * a.d, a.d * b.d)
RSub(a, b) == Frac(a.n * b.d - b.n * a.d, a.d * b.d)
RMul(a, b) == Frac(a.n * b.n, a.d * b.d)
RDiv(a, b) ==
    IF b.n > 0 THEN Frac(a.n * b.d, a.d * b.n)
    ELSE Frac(-(a.n * b.d), a.d * (-b.n))
RLe(a, b) == a.n * b.d <= b.n * a.d
RLt(a, b) == a.n * b.d < b.n * a.d
RMin(a, b) == IF RLe(a, b) THEN a ELSE b
RMax(a, b) == IF RLe(a, b) THEN b ELSE a
RAbs(a) == [n |-> Abs(a.n), d |-> a.d]

RECURSIVE RPow(_, _)
RPow(a, k) == IF k = 0 THEN RInt(1) ELSE RMul(a, RPow(a, k - 1))

\* Variant of max(0, ...) that does not floor.
Max_Unfloored(a, b) == b

Max(a, b) == IF a >= b THEN a ELSE b

RECURSIVE SumValues(_)
SumValues(S) ==
    IF S = {} THEN 0
    ELSE LET i == CHOOSE x \in S : TRUE
         IN  items[i].value + SumValues(S \ {i})

\* Item ids the in-flight requests may still take from the sequence.
RECURSIVE Reserved(_)
Reserved(S) ==
    IF S = {} THEN 0
    ELSE LET t == CHOOSE x \in S : TRUE
             n == IF req[t].op = "open_case" THEN req[t].mult - req[t].k
                  ELSE IF req[t].op = "upgrade" THEN 1
                  ELSE 0
         IN  n + Reserved(S \ {t})

\* Variants without with_for_update(): the SELECT does not wait for the row.
UserLock_NotTaken(t, u) == TRUE
PromoLock_NotTaken(t, c) == TRUE
ItemLock_NotTaken(t, i) == TRUE

\* with_for_update(): the SELECT returns once no other transaction holds the row.
UserLockFree(t, u) == ulock[u] \in {0, t}
ItemLockFree(t, i) == ilock[i] \in {0, t}
PromoLockFree(t, c) == plock[c] \in {0, t}

\* Variant of the filter without InventoryItem.user_id == uid.
Owned_ByAnyAccount(u, i) == i \in ItemIds /\ items[i].owner # 0

\* The filter InventoryItem.id == item_id, InventoryItem.user_id == uid
Owned(u, i) == i \in ItemIds /\ items[i].owner = u

ReleaseAll(t) ==
    /\ ulock' = [u \in Users |-> IF ulock[u] = t THEN 0 ELSE ulock[u]]
    /\ ilock' = [i \in ItemIds |-> IF ilock[i] = t THEN 0 ELSE ilock[i]]
    /\ plock' = [c \in Codes |-> IF plock[c] = t THEN 0 ELSE plock[c]]

\* ------------------------------------------------------------------- Init
InitWith(activations) ==
    /\ balance = [u \in Users |-> 0]
    /\ total_won = [u \in Users |-> 0]
    /\ pending = [u \in Users |-> IF u = 1 THEN PendingEarnings ELSE 0]
    /\ items = [i \in ItemIds |-> NoItem]
    /\ nextId = 1
    /\ promo = activations
    /\ redemptions = [u \in Users |-> [c \in Codes |-> 0]]
    /\ ulock = [u \in Users |-> 0]
    /\ ilock = [i \in ItemIds |-> 0]
    /\ plock = [c \in Codes |-> 0]
    /\ req = [t \in Req |-> Blank]
    /\ started = 0
    /\ ledger = [u \in Users |-> 0]
    /\ redeemedBy = [i \in ItemIds |-> <<>>]
    /\ redeemOK = [u \in Users |-> [c \in Codes |-> 0]]
    /\ promo0 = promo

\* No computation of a chance or of a table is in progress.
NoUpg == [stage |-> "idle"]
NoCal == [stage |-> "idle"]
InitPure == upg = NoUpg /\ cal = NoCal

\* Every account of the model has its users row and no referrer.
InitAccounts ==
    /\ exists = [a \in RefAccounts |-> TRUE]
    /\ referrer = [a \in RefAccounts |-> 0]

Init == InitWith([c \in Codes |-> 1]) /\ InitAccounts /\ InitPure

\* The initial databases of the promo-code checks: a code that is unlimited
\* (-1), used up (0), or has one or two activations left.
InitPromo ==
    (\E a \in [Codes -> {-1, 0, 1, 2}] : InitWith(a)) /\ InitAccounts /\ InitPure

\* Inventory rows of the initial database.  open_case_api stores the prize's
\* floor price and its is_ton_prize flag (line 394): 'Nothing', a prize of
\* the cases 'all_in_01' and 'small_billionaire_05', has no entry in
\* UPDATED_FLOOR_PRICES and so the value 0; no shipped case flags a prize as
\* a TON prize, such rows exist only if the database holds them.
SeedKinds == {"Bow Tie", "Nothing", "TON"}

SeedItem(u, k) ==
    [owner |-> u, name |-> k,
     value |-> IF k = "TON" THEN 1 ELSE FloorPrice(k), ton |-> (k = "TON")]

\* Account 1 owns MaxSeeded rows of the kinds above; the rest is as in Init.
InitInventory ==
    \E inv \in [1..MaxSeeded -> SeedKinds] :
        /\ balance = [u \in Users |-> 0]
        /\ total_won = [u \in Users |-> 0]
        /\ pending = [u \in Users |-> 0]
        /\ items = [i \in ItemIds |->
                      IF i <= MaxSeeded THEN SeedItem(1, inv[i]) ELSE NoItem]
        /\ nextId = MaxSeeded + 1
        /\ promo = [c \in Codes |-> 1]
        /\ redemptions = [u \in Users |-> [c \in Codes |-> 0]]
        /\ ulock = [u \in Users |-> 0]
        /\ ilock = [i \in ItemIds |-> 0]
        /\ plock = [c \in Codes |-> 0]
        /\ req = [t \in Req |-> Blank]
        /\ started = 0
        /\ ledger = [u \in Users |-> 0]
        /\ redeemedBy = [i \in ItemIds |-> <<>>]
        /\ redeemOK = [u \in Users |-> [c \in Codes |-> 0]]
        /\ promo0 = promo
        /\ InitAccounts
        /\ InitPure

\* ------------------------------------------------------- request arrival
\* The requests a client may send: the authenticated user and the JSON body.
NewRequests ==
    {[Blank EXCEPT !.op = "topup", !.pc = "tu_lock", !.uid = u, !.amount = a] :
        u \in Users, a \in TopupAmounts}
    \cup
    {[Blank EXCEPT !.op = "open_case", !.pc = "oc_lock", !.uid = u, !.cid = c,
                   !.mult = m] : u \in Users, c \in CaseIds, m \in Multipliers}
    \cup
    {[Blank EXCEPT !.op = "withdraw", !.pc = "w_lock", !.uid = u, !.item = i] :
        u \in Users, i \in ItemIds}
    \cup
    {[Blank EXCEPT !.op = "upgrade", !.pc = "up_lock_user", !.uid = u, !.item = i,
                   !.desired = d] : u \in Users, i \in ItemIds, d \in DesiredNames}
    \cup
    {[Blank EXCEPT !.op = "convert", !.pc = "cv_lock", !.uid = u, !.item = i] :
        u \in Users, i \in ItemIds}
    \cup
    {[Blank EXCEPT !.op = "sell_all", !.pc = "sa_lock", !.uid = u] : u \in Users}
    \cup
    {[Blank EXCEPT !.op = "referral", !.pc = "re_lock", !.uid = u] : u \in Users}
    \cup
    {[Blank EXCEPT !.op = "redeem", !.pc = "rp_lock_user", !.uid = u, !.code = c] :
        u \in Users, c \in Codes}

\* Ids the request needs from the inventory_items sequence.
IdsNeeded(r) ==
    IF r.op = "open_case" THEN r.mult ELSE IF r.op = "upgrade" THEN 1 ELSE 0

\* A request is served by the lowest free slot, and names an item id the
\* sequence has already handed out.
Free(t) == req[t].pc \in {"idle", "done"}

StartRequest(t, r) ==
    /\ Free(t)
    /\ \A s \in Req : s < t => ~Free(s)
    /\ started < MaxStarted
    /\ r.item < nextId
    /\ (nextId - 1) + Reserved(Req \ {t}) + IdsNeeded(r) <= MaxItems
    /\ r.op = "topup" => balance[r.uid] + r.amount <= MaxBalance
    /\ req' = [req EXCEPT ![t] = r]
    /\ started' = started + 1
    /\ UNCHANGED <<dbVars, lockVars, histVars, refVars, pureVars>>

\* ------------------------------------------------------- instant_topup_api
\* line 360: the bounds of the accepted amount.
LowAmount == Frac(1, 10)
HighAmount == RInt(10000)

\* Values the field 'amount' of the JSON body can hold: numbers around the
\* two bounds, text, booleans, null, a list, or no field at all.
JsonNumbers ==
    {RInt(-1), RInt(0), Frac(9, 100), Frac(1, 10), RInt(2), RInt(5),
     RInt(10000), RInt(10001)}

RawAmounts ==
    {[kind |-> "number", text |-> "-", num |-> v] : v \in JsonNumbers}
    \cup {[kind |-> "string", text |-> s, num |-> RInt(0)] : s \in {"5", "abc", "nan"}}
    \cup {[kind |-> "bool", text |-> s, num |-> RInt(0)] : s \in {"true", "false"}}
    \cup {[kind |-> k, text |-> "-", num |-> RInt(0)] : k \in {"null", "list", "missing"}}

\* line 359: float(data.get('amount', 0)).  A missing field is 0; float() of
\* a bool is 1.0 or 0.0; float() of text parses it ('nan' gives a NaN) or
\* raises ValueError; float() of None or of a list raises TypeError.
PyFloat(raw) ==
    CASE raw.kind = "number" -> [err |-> "-", nan |-> FALSE, num |-> raw.num]
      [] raw.kind = "missing" -> [err |-> "-", nan |-> FALSE, num |-> RInt(0)]
      [] raw.kind = "bool" ->
            [err |-> "-", nan |-> FALSE,
             num |-> IF raw.text = "true" THEN RInt(1) ELSE RInt(0)]
      [] raw.kind = "string" /\ raw.text = "5" ->
            [err |-> "-", nan |-> FALSE, num |-> RInt(5)]
      [] raw.kind = "string" /\ raw.text = "nan" ->
            [err |-> "-", nan |-> TRUE, num |-> RInt(0)]
      [] raw.kind = "string" -> [err |-> "ValueError", nan |-> FALSE, num |-> RInt(0)]
      [] OTHER -> [err |-> "TypeError", nan |-> FALSE, num |-> RInt(0)]

\* line 360: 0.1 <= amount <= 10000; every comparison with a NaN is false.
AmountInRange(f) == ~f.nan /\ RLe(LowAmount, f.num) /\ RLe(f.num, HighAmount)

\* lines 358-361: the answer of the validation.
TopupValidation(raw) ==
    LET f == PyFloat(raw) IN
    IF f.err # "-" THEN "invalid_format"
    ELSE IF ~AmountInRange(f) THEN "invalid_amount"
    ELSE "ok"

\* lines 357: the request body, before the validation.
TopupRequests ==
    {[Blank EXCEPT !.op = "topup", !.pc = "tu_validate", !.uid = u, !.raw = a] :
        u \in Users, a \in RawAmounts}

\* The balances of the model are whole amounts up to MaxBalance.
OnGrid(u, v) == v.d = 1 /\ balance[u] + v.n <= MaxBalance

\* lines 358-361.  An accepted amount that the balances of the model cannot
\* hold is not followed beyond the validation.
TU_Validate(t) ==
    LET f == PyFloat(req[t].raw)
        v == TopupValidation(req[t].raw)
    IN
    /\ req[t].pc = "tu_validate"
    /\ IF v # "ok"
          THEN req' = [req EXCEPT ![t] = Done(t, v)]
          ELSE IF OnGrid(req[t].uid, f.num)
          THEN req' = [req EXCEPT ![t].pc = "tu_lock", ![t].amount = f.num.n]
          ELSE req' = [req EXCEPT ![t].pc = "tu_off_grid"]
    /\ UNCHANGED <<dbVars, lockVars, started, histVars, refVars, pureVars>>

\* line 364: SELECT users FOR UPDATE; line 366: += amount in the session.
TU_LockUser(t) ==
    LET u == req[t].uid IN
    /\ req[t].pc = "tu_lock"
    /\ UserLockFree(t, u)
    /\ ulock' = [ulock EXCEPT ![u] = t]
    /\ req' = [req EXCEPT ![t].pc = "tu_commit",
                          ![t].bal = balance[u] + req[t].amount]
    /\ UNCHANGED <<dbVars, ilock, plock, started, histVars, refVars, pureVars>>

\* line 367: db.commit()
TU_Commit(t) ==
    LET u == req[t].uid IN
    /\ req[t].pc = "tu_commit"
    /\ balance' = [balance EXCEPT ![u] = req[t].bal]
    /\ ledger' = [ledger EXCEPT ![u] = @ + req[t].amount]
    /\ ReleaseAll(t)
    /\ req' = [req EXCEPT ![t] = Done(t, "success")]
    /\ UNCHANGED <<total_won, pending, items, nextId, promo, redemptions,
                   started, redeemedBy, redeemOK, promo0, refVars, pureVars>>

\* ----------------------------------------------------------- open_case_api
\* Variants of the balance check: left out, and off by one.
NotEnoughTON_Never(bal, cost) == FALSE
NotEnoughTON_OrEqual(bal, cost) == bal <= cost

\* line 388: Decimal(str(user.ton_balance)) < cost
NotEnoughTON(bal, cost) == bal < cost

\* Variant of the cost that forgets the multiplier.
OpenCost_IgnoresMultiplier(t) == CasePrice(req[t].cid)

\* line 387: cost = Decimal(str(tcase['priceTON'])) * Decimal(mult)
OpenCost(t) == CasePrice(req[t].cid) * req[t].mult

\* lines 383-389: lock the user, check the balance, debit it in the session.
OC_LockUser(t) ==
    LET u == req[t].uid IN
    /\ req[t].pc = "oc_lock"
    /\ UserLockFree(t, u)
    /\ IF NotEnoughTON(balance[u], OpenCost(t))
          THEN /\ req' = [req EXCEPT ![t] = Done(t, "not_enough")]
               /\ UNCHANGED ulock
          ELSE /\ req' = [req EXCEPT ![t].pc = "oc_draw",
                                     ![t].bal = balance[u] - OpenCost(t)]
               /\ ulock' = [ulock EXCEPT ![u] = t]
    /\ UNCHANGED <<dbVars, ilock, plock, started, histVars, refVars, pureVars>>

\* Variant of the loop body that commits where the code flushes: the debit
\* and each row are published as they are written.
OC_Draw_Commits(t) ==
    LET u == req[t].uid IN
    /\ req[t].pc = "oc_draw"
    /\ req[t].k < req[t].mult
    /\ \E chosen \in CasePrizes(req[t].cid) :
          /\ items' = [items EXCEPT ![nextId] =
                          [owner |-> u, name |-> chosen,
                           value |-> FloorPrice(chosen), ton |-> FALSE]]
          /\ req' = [req EXCEPT ![t].k = @ + 1]
    /\ balance' = [balance EXCEPT ![u] = req[t].bal]
    /\ nextId' = nextId + 1
    /\ UNCHANGED <<total_won, pending, promo, redemptions, lockVars, started,
                   histVars, refVars, pureVars>>

\* lines 391-396, one iteration: draw a prize of the table, add the
\* InventoryItem and flush (the INSERT takes the next id of the sequence; the
\* row stays invisible to other transactions until the commit).
OC_Draw(t) ==
    /\ req[t].pc = "oc_draw"
    /\ req[t].k < req[t].mult
    /\ \E chosen \in CasePrizes(req[t].cid) :
          LET row == [id |-> nextId, owner |-> req[t].uid, name |-> chosen,
                      value |-> FloorPrice(chosen), ton |-> FALSE]
          IN  req' = [req EXCEPT ![t].new = Append(@, row), ![t].k = @ + 1]
    /\ nextId' = nextId + 1
    /\ UNCHANGED <<balance, total_won, pending, items, promo, redemptions,
                   lockVars, started, histVars, refVars, pureVars>>

\* An exception inside the loop (a storage error raised by db.flush()):
\* it leaves the handler through `finally: db.close()`, which rolls back.
OC_Fault(t) ==
    /\ req[t].pc = "oc_draw"
    /\ req[t].k < req[t].mult
    /\ ReleaseAll(t)
    /\ req' = [req EXCEPT ![t] = Done(t, "error")]
    /\ UNCHANGED <<dbVars, started, histVars, refVars, pureVars>>

\* line 397: db.commit() publishes the debit and the inserted rows.
OC_Commit(t) ==
    LET u == req[t].uid
        new == req[t].new
    IN
    /\ req[t].pc = "oc_draw"
    /\ req[t].k = req[t].mult
    /\ balance' = [balance EXCEPT ![u] = req[t].bal]
    /\ items' = [i \in ItemIds |->
                    IF \E j \in 1..Len(new) : new[j].id = i
                       THEN LET j == CHOOSE j \in 1..Len(new) : new[j].id = i
                            IN  [owner |-> new[j].owner, name |-> new[j].name,
                                 value |-> new[j].value, ton |-> new[j].ton]
                    ELSE items[i]]
    /\ ledger' = [ledger EXCEPT ![u] = @ - CasePrice(req[t].cid) * req[t].mult]
    /\ ReleaseAll(t)
    /\ req' = [req EXCEPT ![t] = Done(t, "success")]
    /\ UNCHANGED <<total_won, pending, nextId, promo, redemptions, started,
                   redeemedBy, redeemOK, promo0, refVars, pureVars>>

\* -------------------------------------------------------- withdraw_gift_api
\* line 413: SELECT inventory_items WHERE id, user_id FOR UPDATE.  A row that
\* matches is returned once its lock is free; lines 414-415 reject.
W_LockItem(t) ==
    LET u == req[t].uid
        i == req[t].item
    IN
    /\ req[t].pc = "w_lock"
    /\ IF ~Owned(u, i)
          THEN /\ req' = [req EXCEPT ![t] = Done(t, "not_found")]
               /\ UNCHANGED ilock
          ELSE /\ ItemLockFree(t, i)
               /\ IF items[i].ton
                     THEN /\ req' = [req EXCEPT ![t] = Done(t, "ton_prize")]
                          /\ UNCHANGED ilock
                     ELSE /\ req' = [req EXCEPT ![t].pc = "w_call"]
                          /\ ilock' = [ilock EXCEPT ![i] = t]
    /\ UNCHANGED <<dbVars, ulock, plock, started, histVars, refVars, pureVars>>

\* line 425: requests.post(..., timeout=30) to the fulfillment service, made
\* while the row lock is held.  "ok": a 2xx answer.  "failed": a network
\* error, a timeout, or a non-2xx answer whose body is a JSON object or is
\* not JSON.  "failed_odd_body": a non-2xx answer whose body is JSON but not
\* an object (null, a list, a string).
HttpOutcomes == {"ok", "failed", "failed_odd_body"}

\* Variant of Withdraw that locks the account row after the item row,
\* before the call.
W_Call_LocksAccount(t) ==
    /\ req[t].pc = "w_call"
    /\ UserLockFree(t, req[t].uid)
    /\ ulock' = [ulock EXCEPT ![req[t].uid] = t]
    /\ \E h \in HttpOutcomes : req' = [req EXCEPT ![t].pc = "w_resp", ![t].http = h]
    /\ UNCHANGED <<dbVars, ilock, plock, started, histVars, refVars, pureVars>>

W_Call(t) ==
    /\ req[t].pc = "w_call"
    /\ \E h \in HttpOutcomes : req' = [req EXCEPT ![t].pc = "w_resp", ![t].http = h]
    /\ UNCHANGED <<dbVars, lockVars, started, histVars, refVars, pureVars>>

\* The response of withdraw_gift_api after the call.  Lines 433-444 turn a
\* RequestException into 502; e.response.json().get(...) at line 438 raises
\* AttributeError on a body that is not an object, which the handler of
\* line 446 turns into 500.
WithdrawResult(h) ==
    CASE h = "ok" -> "success"
      [] h = "failed" -> "service_failure"
      [] OTHER -> "error"

\* lines 426-431 on a 2xx answer: db.delete(item); db.commit().
\* lines 433-449 otherwise: db.rollback().
W_Finish(t) ==
    LET i == req[t].item IN
    /\ req[t].pc = "w_resp"
    /\ IF req[t].http = "ok"
          THEN /\ items' = [items EXCEPT ![i] = NoItem]
               /\ redeemedBy' = [redeemedBy EXCEPT ![i] = Append(@, "withdraw")]
          ELSE UNCHANGED <<items, redeemedBy>>
    /\ ReleaseAll(t)
    /\ req' = [req EXCEPT ![t] = Done(t, WithdrawResult(req[t].http))]
    /\ UNCHANGED <<balance, total_won, pending, nextId, promo, redemptions,
                   started, ledger, redeemOK, promo0, refVars, pureVars>>

\* ------------------------------------------------------ upgrade_item_v2_api
\* line 462: SELECT users FOR UPDATE.
UP_LockUser(t) ==
    LET u == req[t].uid IN
    /\ req[t].pc = "up_lock_user"
    /\ UserLockFree(t, u)
    /\ ulock' = [ulock EXCEPT ![u] = t]
    /\ req' = [req EXCEPT ![t].pc = "up_lock_item", ![t].won = total_won[u]]
    /\ UNCHANGED <<dbVars, ilock, plock, started, histVars, refVars, pureVars>>

\* lines 463-468: SELECT the item FOR UPDATE, then the rejections.
UP_Reject(t) ==
    LET u == req[t].uid
        i == req[t].item
        d == req[t].desired
    IN
    /\ req[t].pc = "up_lock_item"
    /\ Owned(u, i) => ItemLockFree(t, i)
    /\ \/ /\ ~Owned(u, i) \/ d \notin NftNames
          /\ req' = [req EXCEPT ![t] = Done(t, "not_found")]
       \/ /\ Owned(u, i) /\ d \in NftNames
          /\ items[i].ton \/ items[i].value <= 0
          /\ req' = [req EXCEPT ![t] = Done(t, "invalid_item")]
       \/ /\ Owned(u, i) /\ d \in NftNames
          /\ ~(items[i].ton \/ items[i].value <= 0)
          /\ FloorPrice(d) <= items[i].value
          /\ req' = [req EXCEPT ![t] = Done(t, "not_more_valuable")]
    /\ ReleaseAll(t)
    /\ UNCHANGED <<dbVars, started, histVars, refVars, pureVars>>

\* Variant without the check of line 468.
UpgradeAllowed_AnyTarget(t) ==
    LET u == req[t].uid
        i == req[t].item
        d == req[t].desired
    IN
    /\ Owned(u, i) /\ d \in NftNames
    /\ ~items[i].ton /\ items[i].value > 0

\* The item passed the checks of lines 465-468.
UpgradeAllowed(t) ==
    LET u == req[t].uid
        i == req[t].item
        d == req[t].desired
    IN
    /\ Owned(u, i) /\ d \in NftNames
    /\ ~items[i].ton /\ items[i].value > 0
    /\ FloorPrice(d) > items[i].value

\* Variant of the success branch without db.delete(item).
UP_Win_KeepsSource(t) ==
    LET u == req[t].uid
        i == req[t].item
        d == req[t].desired
    IN
    /\ req[t].pc = "up_lock_item"
    /\ UpgradeAllowed(t)
    /\ ItemLockFree(t, i)
    /\ total_won' = [total_won EXCEPT ![u] = req[t].won + (FloorPrice(d) - items[i].value)]
    /\ items' = [items EXCEPT ![nextId] = [owner |-> u, name |-> d,
                                           value |-> FloorPrice(d), ton |-> FALSE]]
    /\ nextId' = nextId + 1
    /\ redeemedBy' = [redeemedBy EXCEPT ![i] = Append(@, "upgrade")]
    /\ ReleaseAll(t)
    /\ req' = [req EXCEPT ![t] = Done(t, "success")]
    /\ UNCHANGED <<balance, pending, promo, redemptions, started, ledger,
                   redeemOK, promo0, refVars, pureVars>>

\* lines 471-476: random.uniform(0, 100) < chance.  The chance lies in
\* [3, 75], so both outcomes of the draw are possible for every pair of
\* values.  The counter is written from the value read at line 462.
UP_Win(t) ==
    LET u == req[t].uid
        i == req[t].item
        d == req[t].desired
    IN
    /\ req[t].pc = "up_lock_item"
    /\ UpgradeAllowed(t)
    /\ ItemLockFree(t, i)
    /\ total_won' = [total_won EXCEPT ![u] = req[t].won + (FloorPrice(d) - items[i].value)]
    /\ items' = [items EXCEPT ![i] = NoItem,
                              ![nextId] = [owner |-> u, name |-> d,
                                           value |-> FloorPrice(d), ton |-> FALSE]]
    /\ nextId' = nextId + 1
    /\ redeemedBy' = [redeemedBy EXCEPT ![i] = Append(@, "upgrade")]
    /\ ReleaseAll(t)
    /\ req' = [req EXCEPT ![t] = Done(t, "success")]
    /\ UNCHANGED <<balance, pending, promo, redemptions, started, ledger,
                   redeemOK, promo0, refVars, pureVars>>

\* Variant of the failure branch that floors the counter at zero, as
\* convert_to_ton_api does.
UP_Lose_Floored(t) ==
    LET u == req[t].uid
        i == req[t].item
    IN
    /\ req[t].pc = "up_lock_item"
    /\ UpgradeAllowed(t)
    /\ ItemLockFree(t, i)
    /\ total_won' = [total_won EXCEPT ![u] = Max(0, req[t].won - items[i].value)]
    /\ items' = [items EXCEPT ![i] = NoItem]
    /\ redeemedBy' = [redeemedBy EXCEPT ![i] = Append(@, "upgrade")]
    /\ ReleaseAll(t)
    /\ req' = [req EXCEPT ![t] = Done(t, "failed")]
    /\ UNCHANGED <<balance, pending, nextId, promo, redemptions, started,
                   ledger, redeemOK, promo0, refVars, pureVars>>

\* Variant of the failure branch that pays the lost item's value back.
UP_Lose_Refunds(t) ==
    LET u == req[t].uid
        i == req[t].item
    IN
    /\ req[t].pc = "up_lock_item"
    /\ UpgradeAllowed(t)
    /\ ItemLockFree(t, i)
    /\ total_won' = [total_won EXCEPT ![u] = req[t].won - items[i].value]
    /\ balance' = [balance EXCEPT ![u] = @ + items[i].value]
    /\ ledger' = [ledger EXCEPT ![u] = @ + items[i].value]
    /\ items' = [items EXCEPT ![i] = NoItem]
    /\ redeemedBy' = [redeemedBy EXCEPT ![i] = Append(@, "upgrade")]
    /\ ReleaseAll(t)
    /\ req' = [req EXCEPT ![t] = Done(t, "failed")]
    /\ UNCHANGED <<pending, nextId, promo, redemptions, started, redeemOK,
                   promo0, refVars, pureVars>>

\* lines 477-480: the draw failed; the item is deleted, the counter debited.
UP_Lose(t) ==
    LET u == req[t].uid
        i == req[t].item
    IN
    /\ req[t].pc = "up_lock_item"
    /\ UpgradeAllowed(t)
    /\ ItemLockFree(t, i)
    /\ total_won' = [total_won EXCEPT ![u] = req[t].won - items[i].value]
    /\ items' = [items EXCEPT ![i] = NoItem]
    /\ redeemedBy' = [redeemedBy EXCEPT ![i] = Append(@, "upgrade")]
    /\ ReleaseAll(t)
    /\ req' = [req EXCEPT ![t] = Done(t, "failed")]
    /\ UNCHANGED <<balance, pending, nextId, promo, redemptions, started,
                   ledger, redeemOK, promo0, refVars, pureVars>>

\* lines 34-36.
UPGRADE_MAX_CHANCE == 75
UPGRADE_MIN_CHANCE == 3
UPGRADE_RISK_FACTOR == Frac(3, 5)

\* Variant of line 470 without max(UPGRADE_MIN_CHANCE, ...).
UpgradeChance_NoMinimum(cur, des) ==
    LET x == RDiv(RInt(des), RInt(cur))
        e == RSub(x, RInt(1))
    IN  RMin(RInt(UPGRADE_MAX_CHANCE),
             RMul(RInt(UPGRADE_MAX_CHANCE), RPow(UPGRADE_RISK_FACTOR, e.n)))

\* lines 469-470: x = val_desired / val_current and the clamped chance, for
\* values whose ratio is a whole number (the exponent x - 1 is then a whole
\* number and the Decimal power is exact).
UpgradeChance(cur, des) ==
    LET x == RDiv(RInt(des), RInt(cur))
        e == RSub(x, RInt(1))
    IN  RMin(RInt(UPGRADE_MAX_CHANCE),
             RMax(RInt(UPGRADE_MIN_CHANCE),
                  RMul(RInt(UPGRADE_MAX_CHANCE), RPow(UPGRADE_RISK_FACTOR, e.n))))

\* The pairs (current value, desired value) that pass the check of line 468.
ChanceInputs ==
    {[stage |-> "in", cur |-> c, des |-> c * k] :
        c \in 1..MaxCurrent, k \in 2..MaxRatio}

ComputeChance ==
    /\ upg.stage = "in"
    /\ upg' = [stage |-> "out", cur |-> upg.cur, des |-> upg.des,
               chance |-> UpgradeChance(upg.cur, upg.des)]
    /\ UNCHANGED <<dbVars, lockVars, req, started, histVars, cal>>

\* ------------------------------------------- calculate_rtp_probabilities
\* line 38
RTP_TARGET == Frac(22, 25)

\* line 227: the tolerance 1e-7, as its inverse.
SUM_TOLERANCE_INV == 10000000

\* abs(r) <= 1 / inv, without leaving the machine integers.
Within(r, inv) ==
    LET a == Abs(r.n) IN
    a = 0 \/ (a <= 2147483647 \div inv /\ a * inv <= r.d)

RECURSIVE SumTo(_, _)
SumTo(f, n) == IF n = 0 THEN RInt(0) ELSE RAdd(f[n], SumTo(f, n - 1))

\* A prize of a case definition: its floor price (UPDATED_FLOOR_PRICES, 0
\* when the name has no entry) and its raw probability in tenths.
Floors == {0, 1, 3}
Weights == {0, 2, 5, 10}
PrizeDefs == [floor : Floors, w : Weights]

RawProb(prizes) == [i \in 1..Len(prizes) |-> Frac(prizes[i].w, 10)]
FloorOf(prizes) == [i \in 1..Len(prizes) |-> RInt(prizes[i].floor)]

\* Sum over the prizes of probability x floor price.
ExpectedValue(prizes, probs) ==
    SumTo([i \in 1..Len(prizes) |-> RMul(FloorOf(prizes)[i], probs[i])],
          Len(prizes))

\* Variant without the correction of lines 227 / 247.
ResidualFix_Skipped(probs) == probs

\* lines 226-227 and 246-247: the residual goes to the first prize.
ResidualFix(probs) ==
    LET sum == SumTo(probs, Len(probs)) IN
    IF ~Within(RSub(sum, RInt(1)), SUM_TOLERANCE_INV)
       THEN [probs EXCEPT ![1] = RAdd(@, RSub(RInt(1), sum))]
       ELSE probs

\* lines 231-248
Fallback(price, prizes) ==
    LET n == Len(prizes)
        target_ev == RMul(RInt(price), RTP_TARGET)
        current_ev == ExpectedValue(prizes, RawProb(prizes))
    IN
    IF current_ev.n <= 0 THEN [path |-> "fallback", probs |-> <<>>]
    ELSE LET scale == RDiv(target_ev, current_ev)
             scaled == [i \in 1..n |-> RMul(RawProb(prizes)[i], scale)]
             total_prob == SumTo(scaled, n)
         IN
         IF total_prob.n <= 0 THEN [path |-> "fallback", probs |-> <<>>]
         ELSE [path |-> "fallback",
               probs |-> ResidualFix([i \in 1..n |-> RDiv(scaled[i], total_prob)])]

\* line 214: the first prize of the least positive floor price.
FillerIndex(prizes) ==
    CHOOSE i \in 1..Len(prizes) :
        /\ prizes[i].floor > 0
        /\ \A j \in 1..Len(prizes) :
              prizes[j].floor > 0 =>
                  \/ prizes[i].floor < prizes[j].floor
                  \/ prizes[i].floor = prizes[j].floor /\ i <= j

\* lines 204-229
Calibrate(price, prizes) ==
    LET n == Len(prizes)
        target_ev == RMul(RInt(price), RTP_TARGET)
    IN
    IF n = 0 \/ \A i \in 1..n : prizes[i].floor = 0
       THEN [path |-> "empty", probs |-> <<>>]
    ELSE
    LET f == FillerIndex(prizes)
        prob == RawProb(prizes)
        sum_non_filler_ev ==
            SumTo([i \in 1..n |-> IF i = f THEN RInt(0)
                                  ELSE RMul(FloorOf(prizes)[i], prob[i])], n)
        non_filler_prob ==
            SumTo([i \in 1..n |-> IF i = f THEN RInt(0) ELSE prob[i]], n)
        rem_ev == RSub(target_ev, sum_non_filler_ev)
        req_filler_prob == RDiv(rem_ev, FloorOf(prizes)[f])
    IN
    IF ~(RLe(RInt(0), req_filler_prob) /\ RLe(req_filler_prob, RInt(1)))
       THEN Fallback(price, prizes)
    ELSE
    LET scale == IF non_filler_prob.n > 0
                    THEN RDiv(RSub(RInt(1), req_filler_prob), non_filler_prob)
                    ELSE RInt(1)
        scaled == [i \in 1..n |-> IF i = f THEN req_filler_prob
                                  ELSE RMul(prob[i], scale)]
    IN  [path |-> "primary", probs |-> ResidualFix(scaled)]

\* The case definitions: a positive price and up to MaxPrizes prizes.
CaseDefs ==
    {[stage |-> "in", price |-> p, prizes |-> ps] :
        p \in 1..MaxPrice,
        ps \in UNION {[1..n -> PrizeDefs] : n \in 0..MaxPrizes}}

\* line 286: the table of a case is computed from its definition.
ComputeTable ==
    /\ cal.stage = "in"
    /\ LET r == Calibrate(cal.price, cal.prizes) IN
       cal' = [stage |-> "out", price |-> cal.price, prizes |-> cal.prizes,
               path |-> r.path, probs |-> r.probs]
    /\ UNCHANGED <<dbVars, lockVars, req, started, histVars, upg>>

\* ------------------------------------------------------- convert_to_ton_api
\* lines 493-499: SELECT users FOR UPDATE, then a plain SELECT of the item
\* (no row lock); the credit and the counter are computed in the session.
CV_LockUser(t) ==
    LET u == req[t].uid
        i == req[t].item
    IN
    /\ req[t].pc = "cv_lock"
    /\ UserLockFree(t, u)
    /\ IF ~Owned(u, i)
          THEN /\ req' = [req EXCEPT ![t] = Done(t, "not_found")]
               /\ UNCHANGED ulock
          ELSE IF items[i].ton
          THEN /\ req' = [req EXCEPT ![t] = Done(t, "ton_prize")]
               /\ UNCHANGED ulock
          ELSE /\ req' = [req EXCEPT
                            ![t].pc = "cv_commit",
                            ![t].amount = items[i].value,
                            ![t].bal = balance[u] + items[i].value,
                            ![t].won = Max(0, total_won[u] - items[i].value)]
               /\ ulock' = [ulock EXCEPT ![u] = t]
    /\ UNCHANGED <<dbVars, ilock, plock, started, histVars, refVars, pureVars>>

\* line 500: db.delete(item); db.commit().  The flush writes the user row and
\* issues DELETE ... WHERE id = item_id, which waits while another
\* transaction holds the row lock; a DELETE that matches no row (the row was
\* deleted meanwhile) only logs a warning, and the commit goes on.
CV_Commit(t) ==
    LET u == req[t].uid
        i == req[t].item
    IN
    /\ req[t].pc = "cv_commit"
    /\ ItemLockFree(t, i)
    /\ balance' = [balance EXCEPT ![u] = req[t].bal]
    /\ total_won' = [total_won EXCEPT ![u] = req[t].won]
    /\ items' = [items EXCEPT ![i] = NoItem]
    /\ ledger' = [ledger EXCEPT ![u] = @ + req[t].amount]
    /\ redeemedBy' = [redeemedBy EXCEPT ![i] = Append(@, "convert")]
    /\ ReleaseAll(t)
    /\ req' = [req EXCEPT ![t] = Done(t, "success")]
    /\ UNCHANGED <<pending, nextId, promo, redemptions, started, redeemOK,
                   promo0, refVars, pureVars>>

\* ------------------------------------------------------- sell_all_items_api
\* Variant of line 514 without the is_ton_prize filter.
ItemsToSell_Everything(u) == {i \in ItemIds : items[i].owner = u}

\* line 514
ItemsToSell(u) == {i \in ItemIds : items[i].owner = u /\ ~items[i].ton}

\* lines 512-518: SELECT users FOR UPDATE, load user.inventory (plain SELECT).
SA_LockUser(t) ==
    LET u == req[t].uid
        sell == ItemsToSell(u)
    IN
    /\ req[t].pc = "sa_lock"
    /\ UserLockFree(t, u)
    /\ IF sell = {}
          THEN /\ req' = [req EXCEPT ![t] = Done(t, "no_items")]
               /\ UNCHANGED ulock
          ELSE /\ req' = [req EXCEPT
                            ![t].pc = "sa_commit",
                            ![t].sell = sell,
                            ![t].amount = SumValues(sell),
                            ![t].bal = balance[u] + SumValues(sell),
                            ![t].won = Max(0, total_won[u] - SumValues(sell))]
               /\ ulock' = [ulock EXCEPT ![u] = t]
    /\ UNCHANGED <<dbVars, ilock, plock, started, histVars, refVars, pureVars>>

\* lines 519-520: one DELETE per item (each waits for the row lock), commit.
SA_Commit(t) ==
    LET u == req[t].uid
        sell == req[t].sell
    IN
    /\ req[t].pc = "sa_commit"
    /\ \A i \in sell : ItemLockFree(t, i)
    /\ balance' = [balance EXCEPT ![u] = req[t].bal]
    /\ total_won' = [total_won EXCEPT ![u] = req[t].won]
    /\ items' = [i \in ItemIds |-> IF i \in sell THEN NoItem ELSE items[i]]
    /\ ledger' = [ledger EXCEPT ![u] = @ + req[t].amount]
    /\ redeemedBy' = [i \in ItemIds |->
                        IF i \in sell THEN Append(redeemedBy[i], "sell_all")
                        ELSE redeemedBy[i]]
    /\ ReleaseAll(t)
    /\ req' = [req EXCEPT ![t] = Done(t, "success")]
    /\ UNCHANGED <<pending, nextId, promo, redemptions, started, redeemOK,
                   promo0, refVars, pureVars>>

\* ------------------------------------------- withdraw_referral_earnings_api
\* line 541: SELECT users FOR UPDATE; lines 543-549.
RE_LockUser(t) ==
    LET u == req[t].uid IN
    /\ req[t].pc = "re_lock"
    /\ UserLockFree(t, u)
    /\ IF pending[u] > 0
          THEN /\ req' = [req EXCEPT ![t].pc = "re_commit",
                                     ![t].amount = pending[u],
                                     ![t].bal = balance[u] + pending[u]]
               /\ ulock' = [ulock EXCEPT ![u] = t]
          ELSE /\ req' = [req EXCEPT ![t] = Done(t, "no_earnings")]
               /\ UNCHANGED ulock
    /\ UNCHANGED <<dbVars, ilock, plock, started, histVars, refVars, pureVars>>

\* line 547: db.commit()
RE_Commit(t) ==
    LET u == req[t].uid IN
    /\ req[t].pc = "re_commit"
    /\ balance' = [balance EXCEPT ![u] = req[t].bal]
    /\ pending' = [pending EXCEPT ![u] = 0]
    /\ ledger' = [ledger EXCEPT ![u] = @ + req[t].amount]
    /\ ReleaseAll(t)
    /\ req' = [req EXCEPT ![t] = Done(t, "success")]
    /\ UNCHANGED <<total_won, items, nextId, promo, redemptions, started,
                   redeemedBy, redeemOK, promo0, refVars, pureVars>>

\* ------------------------------------------------------ redeem_promocode_api
\* line 562: SELECT users FOR UPDATE.
RP_LockUser(t) ==
    LET u == req[t].uid IN
    /\ req[t].pc = "rp_lock_user"
    /\ UserLockFree(t, u)
    /\ ulock' = [ulock EXCEPT ![u] = t]
    /\ req' = [req EXCEPT ![t].pc = "rp_lock_promo", ![t].bal = balance[u]]
    /\ UNCHANGED <<dbVars, ilock, plock, started, histVars, refVars, pureVars>>

\* line 565
PromoExpired(act) == act # -1 /\ act <= 0

\* Variant without the lookup of line 566.
HasRedeemed_Never(u, c) == FALSE

\* line 566: a redemption row of this user for this code exists
HasRedeemed(u, c) == redemptions[u][c] > 0

\* lines 563-569: SELECT promo_codes FOR UPDATE, the two rejections in the
\* order of the code, then the decrement and the credit in the session.
RP_LockPromo(t) ==
    LET u == req[t].uid
        c == req[t].code
    IN
    /\ req[t].pc = "rp_lock_promo"
    /\ PromoLockFree(t, c)
    /\ IF PromoExpired(promo[c])
          THEN /\ req' = [req EXCEPT ![t] = Done(t, "expired")]
               /\ ReleaseAll(t)
          ELSE IF HasRedeemed(u, c)
          THEN /\ req' = [req EXCEPT ![t] = Done(t, "already_redeemed")]
               /\ ReleaseAll(t)
          ELSE /\ req' = [req EXCEPT
                            ![t].pc = "rp_commit",
                            ![t].act = IF promo[c] # -1 THEN promo[c] - 1 ELSE promo[c],
                            ![t].bal = @ + PromoAmount(c)]
               /\ plock' = [plock EXCEPT ![c] = t]
               /\ UNCHANGED <<ulock, ilock>>
    /\ UNCHANGED <<dbVars, started, histVars, refVars, pureVars>>

\* line 570: INSERT the redemption row and commit.  The unique constraint
\* uq_user_promo_redemption (line 125) makes the INSERT of a second row for
\* the pair fail; the IntegrityError leaves through db.close() (rollback).
RP_Commit(t) ==
    LET u == req[t].uid
        c == req[t].code
    IN
    /\ req[t].pc = "rp_commit"
    /\ IF redemptions[u][c] > 0
          THEN /\ req' = [req EXCEPT ![t] = Done(t, "error")]
               /\ UNCHANGED <<dbVars, histVars, refVars, pureVars>>
          ELSE /\ promo' = [promo EXCEPT ![c] = req[t].act]
               /\ balance' = [balance EXCEPT ![u] = req[t].bal]
               /\ redemptions' = [redemptions EXCEPT ![u][c] = @ + 1]
               /\ ledger' = [ledger EXCEPT ![u] = @ + PromoAmount(c)]
               /\ redeemOK' = [redeemOK EXCEPT ![u][c] = @ + 1]
               /\ req' = [req EXCEPT ![t] = Done(t, "success")]
               /\ UNCHANGED <<total_won, pending, items, nextId, redeemedBy, promo0, refVars, pureVars>>
    /\ ReleaseAll(t)
    /\ UNCHANGED started

\* ------------------------------------------------------------ specification
\* ---------------------------------------------------- register_referral_api
\* The bodies of POST /api/register_referral: user_id and referral_code.
RegisterRequests ==
    {[Blank EXCEPT !.op = "register", !.pc = "rr_read", !.uid = u, !.ref = c] :
        u \in Users, c \in RefCodes}

\* Variant of line 586 that never finds a referrer recorded.
AlreadyReferred_Never(a) == FALSE

\* line 586
AlreadyReferred(a) == referrer[a] # 0

\* lines 587-588: the committed account that has the code, other than the
\* referred account itself; 0 when there is none.
ResolveReferrer(code, a) ==
    IF code \in RefAccounts /\ exists[code] /\ code # a THEN code ELSE 0

\* lines 582-586: a plain SELECT of the referred account (no row lock).
RR_Read(t) ==
    LET u == req[t].uid IN
    /\ req[t].pc = "rr_read"
    /\ IF ~exists[u]
          THEN req' = [req EXCEPT ![t].pc = "rr_insert"]
          ELSE IF AlreadyReferred(u)
          THEN req' = [req EXCEPT ![t] = Done(t, "already_referred")]
          ELSE req' = [req EXCEPT ![t].pc = "rr_resolve"]
    /\ UNCHANGED <<dbVars, lockVars, started, histVars, pureVars>>

\* lines 584-585: INSERT of the account and flush.  The INSERT waits while
\* another transaction holds an uncommitted row of the same id, and fails on
\* the primary key once that row is committed; the exception leaves the
\* handler through finally.
RR_Insert(t) ==
    LET u == req[t].uid IN
    /\ req[t].pc = "rr_insert"
    /\ UserLockFree(t, u)
    /\ IF exists[u]
          THEN /\ req' = [req EXCEPT ![t] = Done(t, "error")]
               /\ UNCHANGED ulock
          ELSE /\ req' = [req EXCEPT ![t].pc = "rr_resolve", ![t].created = TRUE]
               /\ ulock' = [ulock EXCEPT ![u] = t]
    /\ UNCHANGED <<dbVars, ilock, plock, started, histVars, pureVars>>

\* What bot.send_message can do at line 591; "none" when bot is not set.
NotifyOutcomes == {"sent", "failed", "none"}

\* lines 587-592: resolve the referrer; when there is one, set the link in
\* the session and notify the referrer, logging a failure.
RR_Resolve(t) ==
    LET u == req[t].uid
        r == ResolveReferrer(req[t].ref, u)
    IN
    /\ req[t].pc = "rr_resolve"
    /\ IF r = 0
          THEN req' = [req EXCEPT ![t].pc = "rr_commit"]
          ELSE \E n \in NotifyOutcomes :
                  req' = [req EXCEPT ![t].pc = "rr_commit", ![t].link = r,
                                     ![t].notify = n]
    /\ UNCHANGED <<dbVars, lockVars, started, histVars, pureVars>>

\* Variant in which a failed notification aborts the registration.
RR_Commit_NotifyAborts(t) ==
    LET u == req[t].uid IN
    /\ req[t].pc = "rr_commit"
    /\ (req[t].link # 0 /\ ~req[t].created) => UserLockFree(t, u)
    /\ IF req[t].notify = "failed"
          THEN /\ UNCHANGED <<exists, referrer>>
               /\ req' = [req EXCEPT ![t] = Done(t, "error")]
          ELSE /\ exists' = [exists EXCEPT ![u] = TRUE]
               /\ referrer' = [referrer EXCEPT
                                 ![u] = IF req[t].link # 0 THEN req[t].link ELSE @]
               /\ req' = [req EXCEPT ![t] = Done(t, "success")]
    /\ ReleaseAll(t)
    /\ UNCHANGED <<balance, total_won, pending, items, nextId, promo,
                   redemptions, started, histVars, pureVars>>

\* line 593: db.commit() writes the inserted account and, when a link was
\* set, UPDATE users SET referred_by_id, which waits for the row lock.
RR_Commit(t) ==
    LET u == req[t].uid IN
    /\ req[t].pc = "rr_commit"
    /\ (req[t].link # 0 /\ ~req[t].created) => UserLockFree(t, u)
    /\ exists' = [exists EXCEPT ![u] = TRUE]
    /\ referrer' = [referrer EXCEPT
                      ![u] = IF req[t].link # 0 THEN req[t].link ELSE @]
    /\ ReleaseAll(t)
    /\ req' = [req EXCEPT ![t] = Done(t, "success")]
    /\ UNCHANGED <<balance, total_won, pending, items, nextId, promo,
                   redemptions, started, histVars, pureVars>>

\* The initial databases of the referral checks: the referrers exist, the
\* first account may not have been created yet.
InitReferral ==
    /\ InitWith([c \in Codes |-> 1])
    /\ \E e \in BOOLEAN :
          exists = [a \in RefAccounts |-> IF a = 1 THEN e ELSE TRUE]
    /\ referrer = [a \in RefAccounts |-> 0]
    /\ InitPure

NextReferral ==
    \E t \in Req :
        \/ \E r \in RegisterRequests : StartRequest(t, r)
        \/ RR_Read(t) \/ RR_Insert(t) \/ RR_Resolve(t) \/ RR_Commit(t)

SpecReferral == InitReferral /\ [][NextReferral]_vars

\* The purchase and cash-out handlers alone: top-up, OpenCase, Withdraw,
\* ConvertToCurrency and SellAll.
ShopOps == {"topup", "open_case", "withdraw", "convert", "sell_all"}

NextShop ==
    \E t \in Req :
        \/ \E r \in {x \in NewRequests : x.op \in ShopOps} : StartRequest(t, r)
        \/ TU_LockUser(t) \/ TU_Commit(t)
        \/ OC_LockUser(t) \/ OC_Draw(t) \/ OC_Fault(t) \/ OC_Commit(t)
        \/ W_LockItem(t) \/ W_Call(t) \/ W_Finish(t)
        \/ CV_LockUser(t) \/ CV_Commit(t)
        \/ SA_LockUser(t) \/ SA_Commit(t)

SpecShop == Init /\ [][NextShop]_vars

\* The inventory handlers Upgrade, ConvertToCurrency and SellAll over the
\* seeded inventories.
InventoryOps == {"upgrade", "convert", "sell_all"}

NextInventory ==
    \E t \in Req :
        \/ \E r \in {x \in NewRequests : x.op \in InventoryOps} : StartRequest(t, r)
        \/ UP_LockUser(t) \/ UP_Reject(t) \/ UP_Win(t) \/ UP_Lose(t)
        \/ CV_LockUser(t) \/ CV_Commit(t)
        \/ SA_LockUser(t) \/ SA_Commit(t)

SpecInventory == InitInventory /\ [][NextInventory]_vars

\* The chance computation of Upgrade on its own, over the pairs of values.
InitChance ==
    /\ InitWith([c \in Codes |-> 1])
    /\ InitAccounts
    /\ upg \in ChanceInputs
    /\ cal = NoCal

NextChance == ComputeChance

SpecChance == InitChance /\ [][NextChance]_vars

\* The calibrator on its own, over the case definitions.
InitCalibrator ==
    /\ InitWith([c \in Codes |-> 1])
    /\ InitAccounts
    /\ upg = NoUpg
    /\ cal \in CaseDefs

NextCalibrator == ComputeTable

SpecCalibrator == InitCalibrator /\ [][NextCalibrator]_vars

\* The promo-code handler, with top-ups, over every initial promo row.
PromoOps == {"redeem", "topup"}

NextPromo ==
    \E t \in Req :
        \/ \E r \in {x \in NewRequests : x.op \in PromoOps} : StartRequest(t, r)
        \/ TU_LockUser(t) \/ TU_Commit(t)
        \/ RP_LockUser(t) \/ RP_LockPromo(t) \/ RP_Commit(t)

SpecPromo == InitPromo /\ [][NextPromo]_vars

\* The handlers that take more than one row lock or wait for one while
\* holding another, over the seeded inventory of account 1.
LockOps == {"withdraw", "upgrade", "convert", "sell_all", "redeem"}

\* One step of the handler that runs in slot t.
HandlerStep(t) ==
    \/ W_LockItem(t) \/ W_Call(t) \/ W_Finish(t)
    \/ UP_LockUser(t) \/ UP_Reject(t) \/ UP_Win(t) \/ UP_Lose(t)
    \/ CV_LockUser(t) \/ CV_Commit(t)
    \/ SA_LockUser(t) \/ SA_Commit(t)
    \/ RP_LockUser(t) \/ RP_LockPromo(t) \/ RP_Commit(t)

NextLocks ==
    \E t \in Req :
        \/ \E r \in {x \in NewRequests : x.op \in LockOps} : StartRequest(t, r)
        \/ HandlerStep(t)

\* The worker that serves a request runs its handler on; requests.post
\* returns or raises within its timeout of 30 seconds (line 425); the
\* database grants a row lock once its holder committed or rolled back.
Fairness == \A t \in Req : WF_vars(HandlerStep(t))

\* Account 1 owns one row that can be upgraded and one of value 0.
InitLocks ==
    /\ InitInventory
    /\ items[1].name = "Bow Tie"
    /\ \A i \in 2..MaxSeeded : items[i].name = "Nothing"

SpecLocks == InitLocks /\ [][NextLocks]_vars /\ Fairness

\* instant_topup_api from the request body on, with OpenCase as the debit.
NextTopup ==
    \E t \in Req :
        \/ \E r \in TopupRequests : StartRequest(t, r)
        \/ \E r \in {x \in NewRequests : x.op = "open_case"} : StartRequest(t, r)
        \/ TU_Validate(t) \/ TU_LockUser(t) \/ TU_Commit(t)
        \/ OC_LockUser(t) \/ OC_Draw(t) \/ OC_Fault(t) \/ OC_Commit(t)

SpecTopup == Init /\ [][NextTopup]_vars

Next ==
    \E t \in Req :
        \/ \E r \in NewRequests : StartRequest(t, r)
        \/ TU_LockUser(t) \/ TU_Commit(t)
        \/ OC_LockUser(t) \/ OC_Draw(t) \/ OC_Fault(t) \/ OC_Commit(t)
        \/ W_LockItem(t) \/ W_Call(t) \/ W_Finish(t)
        \/ UP_LockUser(t) \/ UP_Reject(t) \/ UP_Win(t) \/ UP_Lose(t)
        \/ CV_LockUser(t) \/ CV_Commit(t)
        \/ SA_LockUser(t) \/ SA_Commit(t)
        \/ RE_LockUser(t) \/ RE_Commit(t)
        \/ RP_LockUser(t) \/ RP_LockPromo(t) \/ RP_Commit(t)

Spec == Init /\ [][Next]_vars

\* ================================================================= claims
\* A step of the request in slot t (the slot's handler moved).
StepOf(t) == req[t].pc \notin {"idle", "done"} /\ req'[t] # req[t]

\* Rows of inventory_items that a step inserted.
NewIds == {i \in ItemIds : items[i] = NoItem /\ items'[i] # NoItem}

\* ---- C1
\* C1: in every reachable state, whatever the interleaving of top-up,
\* OpenCase, Withdraw, Upgrade, ConvertToCurrency, SellAll, RedeemPromo and
\* the referral-earnings transfer, every committed balance is >= 0.
C1_BalanceNonNegative == \A u \in Users : balance[u] >= 0

\* An account that received referral earnings and a top-up and spent all of
\* it on three openings: its balance is exactly 0.
C1_Witness ==
    \E u \in Users :
        /\ balance[u] = 0
        /\ pending[u] = 0 /\ PendingEarnings > 0 /\ u = 1
        /\ Cardinality({i \in ItemIds : items[i].owner = u}) = 3

\* ---- C2
\* C2: the committed balance of every account is the initial balance plus
\* the credits and minus the debits of the requests that reported success,
\* each counted once (no lost update), and it is never negative.
C2_SerialBalance ==
    \A u \in Users : balance[u] = ledger[u] /\ ledger[u] >= 0

\* Two OpenCase requests of one account in flight at once: one holds the
\* account lock with its debit pending, the other waits for the lock, and the
\* committed balance covers both.
C2_Witness ==
    \E t1, t2 \in Req :
        /\ t1 # t2
        /\ req[t1].op = "open_case" /\ req[t1].pc = "oc_draw"
        /\ req[t2].op = "open_case" /\ req[t2].pc = "oc_lock"
        /\ req[t1].uid = req[t2].uid
        /\ ulock[req[t1].uid] = t1
        /\ balance[req[t1].uid] >=
              CasePrice(req[t1].cid) * req[t1].mult + CasePrice(req[t2].cid) * req[t2].mult

\* ---- C3
\* C3: for every inventory entry at most one of Withdraw, ConvertToCurrency,
\* SellAll and Upgrade reports success; in particular no entry is both
\* delivered by Withdraw and credited by ConvertToCurrency or SellAll.
C3_NoDoubleRedemption == \A i \in ItemIds : Len(redeemedBy[i]) <= 1

\* ---- C4
\* C4: OpenCase is atomic.  A step of an OpenCase request either is its
\* commit, which changes the balance and inserts the rows together, or
\* changes neither the committed balances nor the committed inventory; in
\* particular a request that ends in an error after its debit leaves none.
C4_OpenCaseAtomic ==
    [][\A t \in Req :
          (StepOf(t) /\ req[t].op = "open_case") =>
              IF req'[t].res = "success"
                 THEN /\ balance'[req[t].uid] # balance[req[t].uid]
                      /\ Cardinality(NewIds) = req[t].mult
                 ELSE /\ balance' = balance
                      /\ items' = items]_vars

\* An OpenCase that failed after two rows were flushed: the sequence moved on
\* by two, no row exists, no item was ever consumed, and the account still
\* has its balance.
C4_Witness ==
    /\ \E t \in Req : req[t].res = "error"
    /\ nextId = 3
    /\ \A i \in ItemIds : items[i] = NoItem /\ redeemedBy[i] = <<>>
    /\ \E u \in Users : balance[u] > 0 /\ balance[u] = ledger[u]

\* ---- C5
\* C5: a successful OpenCase with quantity in {1,2,3} lowers the balance by
\* exactly price x quantity and inserts exactly `quantity` rows owned by the
\* account, each with the name and the value of a prize of the case's table,
\* and touches no other row.
C5_OpenCaseEffect ==
    [][\A t \in Req :
          (StepOf(t) /\ req[t].op = "open_case" /\ req'[t].res = "success") =>
              /\ req[t].mult \in {1, 2, 3}
              /\ balance'[req[t].uid] =
                    balance[req[t].uid] - CasePrice(req[t].cid) * req[t].mult
              /\ Cardinality(NewIds) = req[t].mult
              /\ \A i \in NewIds :
                    /\ items'[i].owner = req[t].uid
                    /\ items'[i].name \in CasePrizes(req[t].cid)
                    /\ items'[i].value = FloorPrice(items'[i].name)
              /\ \A i \in ItemIds \ NewIds : items'[i] = items[i]]_vars

\* The scenario of the specification: price 2, quantity 3, balance 10, the
\* three rows written and the session's balance 4, about to commit.
C5_Witness ==
    \E t \in Req :
        /\ req[t].op = "open_case" /\ req[t].pc = "oc_draw"
        /\ CasePrice(req[t].cid) = 2 /\ req[t].mult = 3 /\ req[t].k = 3
        /\ balance[req[t].uid] = 10
        /\ req[t].bal = 4

\* ---- C6
\* C6: the balance check of OpenCase is made when the handler holds the
\* account lock alone; with balance < price x quantity the request fails as
\* insufficient funds and changes no row, otherwise it goes on to the draws.
C6_InsufficientFunds ==
    [][\A t \in Req :
          (StepOf(t) /\ req[t].pc = "oc_lock") =>
              /\ ulock[req[t].uid] = 0
              /\ IF balance[req[t].uid] < CasePrice(req[t].cid) * req[t].mult
                    THEN /\ req'[t].res = "not_enough"
                         /\ UNCHANGED dbVars
                    ELSE req'[t].pc = "oc_draw"]_vars

\* A request was refused for insufficient funds by an account that has
\* money, but less than the cost.
C6_Witness ==
    /\ \E t \in Req : req[t].res = "not_enough"
    /\ \A u \in Users : balance[u] \in {0, 1}
    /\ \E u \in Users : balance[u] = 1

\* ---- C7
\* C7: Withdraw deletes the entry if and only if the fulfillment call
\* succeeded; after any failure of the call (non-2xx, network error,
\* timeout) the entry still exists, balance and winnings counter are
\* unchanged, and the retryable service failure (502) is returned.
C7_WithdrawOnlyOnSuccess ==
    [][\A t \in Req :
          (StepOf(t) /\ req[t].op = "withdraw") =>
              /\ balance' = balance
              /\ total_won' = total_won
              /\ (items' # items) <=> (req[t].pc = "w_resp" /\ req[t].http = "ok")
              /\ (req[t].pc = "w_resp" /\ req[t].http = "ok") =>
                    /\ items'[req[t].item] = NoItem
                    /\ req'[t].res = "success"
              /\ (req[t].pc = "w_resp" /\ req[t].http # "ok") =>
                    /\ items'[req[t].item].owner = req[t].uid
                    /\ req'[t].res = "service_failure"]_vars

\* ---- C8
\* C8: a RedeemPromo by an account that already redeemed the code fails as
\* already redeemed, not with another error, and changes neither the
\* balance nor activations_left.
C8_SecondRedeemAlreadyRedeemed ==
    [][\A t \in Req :
          (StepOf(t) /\ req[t].pc = "rp_lock_promo"
             /\ redemptions[req[t].uid][req[t].code] > 0) =>
              /\ req'[t].res = "already_redeemed"
              /\ balance' = balance
              /\ promo' = promo]_vars

\* ---- C9
\* C9: at most one redemption row exists per (account, code), the account is
\* credited at most once per code, and a request that passed the
\* already-redeemed check is the only one of its (account, code) pair to
\* have passed it: no row of the pair exists and no other request of the
\* pair is past the check.
C9_RedeemOnce ==
    /\ \A u \in Users : \A c \in Codes :
          redemptions[u][c] <= 1 /\ redeemOK[u][c] <= 1
    /\ \A t \in Req :
          req[t].pc = "rp_commit" =>
              /\ redemptions[req[t].uid][req[t].code] = 0
              /\ \A s \in Req \ {t} :
                    ~(req[s].pc = "rp_commit" /\ req[s].uid = req[t].uid
                                               /\ req[s].code = req[t].code)

\* Two redemptions of one code by one account in flight at once: one passed
\* the check and is about to commit, the other waits for the account lock.
C9_Witness ==
    \E t1, t2 \in Req :
        /\ t1 # t2
        /\ req[t1].pc = "rp_commit" /\ req[t2].pc = "rp_lock_user"
        /\ req[t1].uid = req[t2].uid /\ req[t1].code = req[t2].code

\* ---- C10
\* Successful redemptions of code c by the accounts of S.
RECURSIVE Redeemed(_, _)
Redeemed(S, c) ==
    IF S = {} THEN 0
    ELSE LET u == CHOOSE x \in S : TRUE
         IN  redeemOK[u][c] + Redeemed(S \ {u}, c)

\* C10: for a code created with n >= 0 activations, activations_left stays in
\* 0..n and the number of successful redemptions is n - activations_left;
\* for an unlimited code it stays -1 and no request fails as expired.
C10_Activations ==
    \A c \in Codes :
        IF promo0[c] = -1
           THEN /\ promo[c] = -1
                /\ \A t \in Req : req[t].res # "expired"
           ELSE /\ promo[c] \in 0..promo0[c]
                /\ Redeemed(Users, c) = promo0[c] - promo[c]

\* A code with two activations that two different accounts used up.
C10_Witness ==
    \E c \in Codes :
        /\ promo0[c] = 2 /\ promo[c] = 0
        /\ \A u \in Users : redeemOK[u][c] = 1

\* ---- C11
\* C11: an Upgrade that answers success deletes the source entry, adds
\* exactly desiredValue - currentValue to the account's winnings counter and
\* inserts exactly one entry of the same account valued desiredValue, in the
\* one step that commits; no other step of the request writes a row.
C11_UpgradeSuccess ==
    [][\A t \in Req :
          (StepOf(t) /\ req[t].op = "upgrade") =>
              LET u == req[t].uid
                  i == req[t].item
                  d == req[t].desired
              IN
              IF req'[t].res = "success"
                 THEN /\ items[i].owner = u
                      /\ items'[i] = NoItem
                      /\ total_won' = [total_won EXCEPT
                                         ![u] = @ + (FloorPrice(d) - items[i].value)]
                      /\ Cardinality(NewIds) = 1
                      /\ \A j \in NewIds :
                            /\ items'[j].owner = u
                            /\ items'[j].name = d
                            /\ items'[j].value = FloorPrice(d)
                      /\ \A j \in ItemIds \ (NewIds \cup {i}) : items'[j] = items[j]
                 ELSE req'[t].res # "failed" => UNCHANGED dbVars]_vars

\* A Bow Tie (3) was upgraded to a Top Hat (6): the Top Hat is in the
\* inventory and the counter stands at 3.
C11_Witness ==
    /\ \E i \in ItemIds : items[i].owner = 1 /\ items[i].name = "Top Hat"
    /\ total_won[1] = 3
    /\ \E i \in ItemIds : redeemedBy[i] = <<"upgrade">>

\* ---- C12
\* C12: an Upgrade that answers failed deletes the source entry, inserts no
\* entry, and lowers the winnings counter by exactly currentValue, below zero
\* when the counter was smaller than that.
C12_UpgradeFailure ==
    [][\A t \in Req :
          (StepOf(t) /\ req[t].op = "upgrade" /\ req'[t].res = "failed") =>
              LET u == req[t].uid
                  i == req[t].item
              IN
              /\ items[i].owner = u
              /\ items' = [items EXCEPT ![i] = NoItem]
              /\ NewIds = {}
              /\ total_won' = [total_won EXCEPT ![u] = @ - items[i].value]]_vars

\* A failed upgrade has left the counter negative.
C12_Witness ==
    /\ total_won[1] < 0
    /\ \E i \in ItemIds : redeemedBy[i] = <<"upgrade">> /\ items[i] = NoItem

\* ---- C13
\* C13: no step of an Upgrade request, whatever its outcome, changes a
\* currency balance; it writes inventory rows and the winnings counter only.
C13_UpgradeKeepsBalance ==
    [][\A t \in Req :
          (StepOf(t) /\ req[t].op = "upgrade") =>
              UNCHANGED <<balance, pending, promo, redemptions>>]_vars

\* An account with a positive balance has lost an item in an upgrade.
C13_Witness ==
    /\ balance[1] > 0
    /\ total_won[1] < 0
    /\ \E i \in ItemIds : redeemedBy[i] = <<"upgrade">>

\* ---- C14
\* C14: when the source entry is a currency-type prize, or its value is not
\* positive, or the desired prize's value is not strictly greater than the
\* entry's, Upgrade answers a validation error without drawing and without
\* changing any row.
C14_UpgradeRejected ==
    [][\A t \in Req :
          LET u == req[t].uid
              i == req[t].item
              d == req[t].desired
          IN
          (/\ StepOf(t) /\ req[t].op = "upgrade" /\ req[t].pc = "up_lock_item"
           /\ Owned(u, i) /\ d \in NftNames
           /\ \/ items[i].ton
              \/ items[i].value <= 0
              \/ FloorPrice(d) <= items[i].value) =>
              /\ req'[t].res \in {"invalid_item", "not_more_valuable"}
              /\ UNCHANGED dbVars]_vars

\* Both rejections have been answered.
C14_Witness ==
    /\ \E t \in Req : req[t].res = "invalid_item"
    /\ \E t \in Req : req[t].res = "not_more_valuable"

\* ---- C15
\* C15: the upgrade chance lies in [3, 75], is non-increasing in the ratio
\* x = desiredValue / currentValue (a pair with a ratio at least as large has
\* a chance at most as large), and is 45 for the values 10 and 20.
C15_ChanceBounds ==
    upg.stage = "out" =>
        /\ RLe(RInt(3), upg.chance) /\ RLe(upg.chance, RInt(75))
        /\ \A c \in 1..MaxCurrent, k \in 2..MaxRatio :
              upg.des * c <= c * k * upg.cur =>
                  RLe(UpgradeChance(c, c * k), upg.chance)
        /\ (upg.cur = 10 /\ upg.des = 20) => upg.chance = RInt(45)

\* The chance of the scenario 10 -> 20 has been computed.
C15_Witness ==
    /\ upg.stage = "out" /\ upg.cur = 10 /\ upg.des = 20
    /\ upg.chance = RInt(45)

\* ---- C16
\* C16: ConvertToCurrency of an owned entry that is not a currency-type prize
\* adds exactly the entry's value to the balance, sets the winnings counter
\* to max(0, counter - value) and deletes the entry, all in the committing
\* step; on a currency-type entry it fails and no row changes.
C16_ConvertEffect ==
    [][\A t \in Req :
          (StepOf(t) /\ req[t].op = "convert") =>
              LET u == req[t].uid
                  i == req[t].item
                  v == items[i].value
              IN
              /\ (req[t].pc = "cv_lock" /\ Owned(u, i) /\ items[i].ton) =>
                     req'[t].res = "ton_prize"
              /\ IF req'[t].res = "success"
                    THEN /\ Owned(u, i) /\ ~items[i].ton
                         /\ balance' = [balance EXCEPT ![u] = @ + v]
                         /\ total_won' = [total_won EXCEPT
                                ![u] = IF @ - v >= 0 THEN @ - v ELSE 0]
                         /\ items' = [items EXCEPT ![i] = NoItem]
                    ELSE UNCHANGED dbVars]_vars

\* A Top Hat won in an upgrade (counter 3) was converted: balance 6, the
\* counter floored at 0; and a conversion of a currency-type prize was refused.
C16_Witness ==
    /\ balance[1] = 6 /\ total_won[1] = 0
    /\ \E i \in ItemIds : redeemedBy[i] = <<"convert">>
    /\ \E t \in Req : req[t].res = "ton_prize"

\* ---- C17
\* The value of the entries of account u that are not currency-type prizes.
RECURSIVE SellableValue(_, _)
SellableValue(u, n) ==
    IF n = 0 THEN 0
    ELSE (IF items[n].owner = u /\ ~items[n].ton THEN items[n].value ELSE 0)
         + SellableValue(u, n - 1)

\* C17: SellAll deletes every entry of the account that is not a
\* currency-type prize and no other entry, adds exactly the sum of their
\* values to the balance and sets the winnings counter to
\* max(0, counter - sum); with no such entry it answers the no-op result and
\* no row changes.
C17_SellAllEffect ==
    [][\A t \in Req :
          (StepOf(t) /\ req[t].op = "sell_all") =>
              LET u == req[t].uid
                  sum == SellableValue(u, MaxItems)
                  none == \A i \in ItemIds : items[i].owner = u => items[i].ton
              IN
              /\ (req[t].pc = "sa_lock" /\ none) => req'[t].res = "no_items"
              /\ req'[t].res = "no_items" => none
              /\ IF req'[t].res = "success"
                    THEN /\ items' = [i \in ItemIds |->
                                        IF items[i].owner = u /\ ~items[i].ton
                                           THEN NoItem ELSE items[i]]
                         /\ balance' = [balance EXCEPT ![u] = @ + sum]
                         /\ total_won' = [total_won EXCEPT
                                ![u] = IF @ - sum >= 0 THEN @ - sum ELSE 0]
                    ELSE UNCHANGED dbVars]_vars

\* SellAll sold a Bow Tie and left the currency-type prize in the inventory,
\* and a second SellAll was answered as a no-op.
C17_Witness ==
    /\ balance[1] = 3
    /\ \E i \in ItemIds : items[i].owner = 1 /\ items[i].ton
    /\ \E i \in ItemIds : redeemedBy[i] = <<"sell_all">>
    /\ \E t \in Req : req[t].res = "no_items"

\* ---- C18
\* C18: a non-empty table returned by the calibrator, by the primary method
\* or by the fallback, has every probability in [0, 1] and probabilities
\* that sum to 1 within 1e-7.
C18_TableIsDistribution ==
    (cal.stage = "out" /\ cal.probs # <<>>) =>
        /\ \A i \in 1..Len(cal.probs) :
              RLe(RInt(0), cal.probs[i]) /\ RLe(cal.probs[i], RInt(1))
        /\ Within(RSub(SumTo(cal.probs, Len(cal.probs)), RInt(1)), 10000000)

\* The primary method ran with non-filler prizes of raw weight 0 only and a
\* filler probability below 1: the residual went to the first prize.
C18_Witness ==
    /\ cal.stage = "out" /\ cal.path = "primary" /\ Len(cal.probs) = 2
    /\ cal.prizes[1].w = 0 /\ cal.prizes[1].floor = 3
    /\ cal.prizes[2].floor = 1
    /\ RLt(RInt(0), cal.probs[1]) /\ RLt(cal.probs[2], RInt(1))

\* ---- C19
\* C19: when the primary method applies, the expected value of the returned
\* table, the sum of probability x floor price, equals price x 0.88 within
\* 1e-6.
C19_PrimaryExpectedValue ==
    (cal.stage = "out" /\ cal.path = "primary") =>
        Within(RSub(ExpectedValue(cal.prizes, cal.probs),
                    RMul(RInt(cal.price), Frac(22, 25))), 1000000)

\* ---- C20
\* C20: when the fallback returns a non-empty table, its expected value
\* after the normalisation equals price x 0.88 within 1e-6.
C20_FallbackExpectedValue ==
    (cal.stage = "out" /\ cal.path = "fallback" /\ cal.probs # <<>>) =>
        Within(RSub(ExpectedValue(cal.prizes, cal.probs),
                    RMul(RInt(cal.price), Frac(22, 25))), 1000000)

\* ---- C21
\* C21: a RegisterReferral call that finds a referrer recorded for the
\* account, whatever code it carries, ends as a no-op and changes no row,
\* and no account ever has itself as referrer.
C21_ReferralIdempotent ==
    [][/\ \A t \in Req :
            (/\ StepOf(t) /\ req[t].op = "register" /\ req[t].pc = "rr_read"
             /\ exists[req[t].uid] /\ referrer[req[t].uid] # 0) =>
                /\ req'[t].res = "already_referred"
                /\ UNCHANGED dbVars
       /\ \A a \in RefAccounts : referrer'[a] # a]_vars

\* Account 1 is linked to account 2 and a later call for it, made with its
\* other possible codes, was answered as already referred.
C21_Witness ==
    /\ referrer[1] = 2
    /\ \E t \in Req : req[t].res = "already_referred"
    /\ started >= 3

\* ---- C22
\* C22: a request that names something unknown, here a referral code that
\* no account has, is answered with an error and changes no stored row.
C22_ErrorsBeforeMutation ==
    [][\A t \in Req :
          (/\ StepOf(t) /\ req[t].op = "register"
           /\ req[t].ref \notin RefAccounts) =>
              /\ UNCHANGED dbVars
              /\ req'[t].res # "success"]_vars

\* ---- C23
\* C23: Withdraw, Upgrade and ConvertToCurrency asked by an account for an
\* entry that another account owns answer not found and change no row; no
\* step changes the owner of an entry that stays in the inventory; and
\* SellAll changes entries of its own account only.
C23_OwnershipIsolation ==
    [][/\ \A t \in Req :
            (/\ StepOf(t)
             /\ req[t].op \in {"withdraw", "upgrade", "convert"}
             /\ req[t].pc \in {"w_lock", "up_lock_item", "cv_lock"}
             /\ items[req[t].item].owner \notin {0, req[t].uid}) =>
                /\ req'[t].res = "not_found"
                /\ UNCHANGED dbVars
       /\ \A i \in ItemIds :
            (items[i] # NoItem /\ items'[i] # NoItem) =>
                items'[i].owner = items[i].owner
       /\ \A t \in Req :
            (StepOf(t) /\ req[t].op = "sell_all") =>
                \A i \in ItemIds :
                    items'[i] # items[i] => items[i].owner = req[t].uid]_vars

\* Every entry created so far is still there and belongs to account 1, and
\* a request, which can only be one of account 2, was answered not found.
C23_Witness ==
    /\ nextId > 1
    /\ \A i \in ItemIds : i < nextId => items[i].owner = 1
    /\ \E t \in Req : req[t].res = "not_found"

\* ---- C24
\* C24: when the notification to the referrer failed, the registration
\* still commits the link and answers success.
C24_NotifyFailureTolerated ==
    [][\A t \in Req :
          (/\ StepOf(t) /\ req[t].op = "register" /\ req[t].pc = "rr_commit"
           /\ req[t].notify = "failed") =>
              /\ req[t].link # 0
              /\ referrer'[req[t].uid] = req[t].link
              /\ exists'[req[t].uid]
              /\ req'[t].res = "success"]_vars

\* The notification of a new link has failed and the commit is next.
C24_Witness ==
    \E t \in Req :
        /\ req[t].op = "register" /\ req[t].pc = "rr_commit"
        /\ req[t].notify = "failed" /\ req[t].link = 3
        /\ referrer[req[t].uid] = 0

\* ---- C25
\* Positions a handler reaches only after the reads its decision rests on.
PastDecisionReads ==
    {"tu_commit", "oc_draw", "w_call", "w_resp", "up_lock_item", "cv_commit",
     "sa_commit", "re_commit", "rp_lock_promo", "rp_commit"}

\* C25: every request that is past its decision reads and has not committed
\* holds the exclusive lock of its account, and, when it works on inventory
\* entries (Withdraw, Convert, SellAll), the lock of each of those entries.
C25_LocksHeldUntilCommit ==
    \A t \in Req :
        req[t].pc \in PastDecisionReads =>
            /\ ulock[req[t].uid] = t
            /\ req[t].op \in {"withdraw", "convert"} => ilock[req[t].item] = t
            /\ req[t].op = "sell_all" => \A i \in req[t].sell : ilock[i] = t

\* ---- C26
\* C26: a Withdraw whose fulfillment call is in flight holds no lock: neither
\* the lock of the entry nor the lock of the account.
C26_NoLockDuringCall ==
    \A t \in Req :
        req[t].pc = "w_call" =>
            /\ \A i \in ItemIds : ilock[i] # t
            /\ \A u \in Users : ulock[u] # t

\* ---- C27
\* The request in slot t cannot take its next step because the row it needs
\* is locked by the request in slot s.
WaitsFor(t, s) ==
    /\ s # t
    /\ \/ /\ req[t].pc \in {"tu_lock", "oc_lock", "up_lock_user", "cv_lock",
                            "sa_lock", "re_lock", "rp_lock_user", "rr_insert"}
          /\ ulock[req[t].uid] = s
       \/ /\ req[t].pc \in {"w_lock", "up_lock_item", "cv_commit"}
          /\ req[t].item \in ItemIds
          /\ ilock[req[t].item] = s
       \/ /\ req[t].pc = "sa_commit"
          /\ \E i \in req[t].sell : ilock[i] = s
       \/ /\ req[t].pc = "rp_lock_promo"
          /\ plock[req[t].code] = s

\* C27: a request never waits for a lock held by a request of a different
\* account, two accounts redeeming the same promo code included.
C27_NoCrossAccountWait ==
    \A t, s \in Req : WaitsFor(t, s) => req[s].uid = req[t].uid

\* ---- C28
\* The request in slot t holds no row lock.
HoldsNoLock(t) ==
    /\ \A u \in Users : ulock[u] # t
    /\ \A i \in ItemIds : ilock[i] # t
    /\ \A c \in Codes : plock[c] # t

\* C28: every request in flight, waiting for a lock or not, eventually
\* completes and holds no lock then; the fulfillment call of Withdraw
\* returns or times out.
C28_EveryRequestCompletes ==
    \A t \in Req :
        (req[t].pc \notin {"idle", "done"}) ~> (req[t].pc = "done" /\ HoldsNoLock(t))

\* An Upgrade holds the account lock and waits for the entry that a Withdraw
\* keeps locked during its fulfillment call.
C28_Witness ==
    \E t, s \in Req :
        /\ WaitsFor(t, s)
        /\ req[t].op = "upgrade" /\ ulock[req[t].uid] = t
        /\ req[s].op = "withdraw" /\ req[s].pc = "w_call"

\* ---- C29
\* Withdraw requests on entry i whose fulfillment call has been issued and
\* whose transaction is not finished.
CallsInFlight(i) ==
    {t \in Req : req[t].op = "withdraw" /\ req[t].item = i
                 /\ req[t].pc \in {"w_call", "w_resp"}}

\* Fulfillment calls for entry i that were answered with success.
SuccessfulCalls(i) ==
    Cardinality({k \in DOMAIN redeemedBy[i] : redeemedBy[i][k] = "withdraw"})
    + Cardinality({t \in CallsInFlight(i) : req[t].pc = "w_resp"
                                            /\ req[t].http = "ok"})

\* C29: for every inventory entry at most one fulfillment call is in flight
\* at a time and at most one ever succeeds; a Withdraw that reaches the entry
\* after a successful one is answered not found.
C29_SingleFulfillment ==
    [][/\ \A i \in ItemIds :
            /\ Cardinality(CallsInFlight(i)) <= 1
            /\ SuccessfulCalls(i) <= 1
       /\ \A t \in Req :
            (/\ StepOf(t) /\ req[t].op = "withdraw" /\ req[t].pc = "w_lock"
             /\ SuccessfulCalls(req[t].item) > 0) =>
                req'[t].res = "not_found"]_vars

\* The call for an entry was answered with success and a second Withdraw of
\* the same entry is waiting for the row.
C29_Witness ==
    \E t, s \in Req :
        /\ req[t].op = "withdraw" /\ req[t].pc = "w_resp" /\ req[t].http = "ok"
        /\ req[s].op = "withdraw" /\ req[s].pc = "w_lock"
        /\ req[s].item = req[t].item /\ req[s].uid = req[t].uid

\* ---- C30
\* C30: a referrer that has been committed for an account is never
\* replaced, also when two registrations for the account run concurrently.
C30_ReferrerWriteOnce ==
    [][\A a \in RefAccounts : referrer[a] # 0 => referrer'[a] = referrer[a]]_vars

\* ---- C31
\* C31: the cumulative-winnings counter of an account rises only in the
\* step of a successful Upgrade of that account; no other step, Convert and
\* SellAll included, increases it.
C31_CounterRaisedOnlyByUpgrade ==
    [][\A u \in Users :
          total_won'[u] > total_won[u] =>
              \E t \in Req :
                  /\ StepOf(t)
                  /\ req[t].op = "upgrade" /\ req[t].uid = u
                  /\ req'[t].res = "success"]_vars

\* ---- C32
\* The amount of the body is a number, or text that spells one, and lies in
\* [0.1, 10000].
NumericInRange(raw) ==
    /\ raw.kind = "number" \/ (raw.kind = "string" /\ PyFloat(raw).err = "-")
    /\ AmountInRange(PyFloat(raw))

\* C32: a top-up whose amount is numeric and in [0.1, 10000] is accepted,
\* and its commit adds exactly the amount to the balance and changes nothing
\* else; a top-up with any other amount is answered with a validation error;
\* the validation changes no stored state; every committed top-up and debit
\* is reflected in the balance.
C32_TopupValidated ==
    [][/\ \A t \in Req :
            (StepOf(t) /\ req[t].op = "topup" /\ req[t].pc = "tu_validate") =>
                /\ UNCHANGED dbVars
                /\ IF NumericInRange(req[t].raw)
                      THEN req'[t].pc \in {"tu_lock", "tu_off_grid"}
                      ELSE req'[t].res \in {"invalid_amount", "invalid_format"}
       /\ \A t \in Req :
            (StepOf(t) /\ req[t].op = "topup" /\ req[t].pc = "tu_commit") =>
                /\ balance' = [balance EXCEPT ![req[t].uid] = @ + req[t].amount]
                /\ UNCHANGED <<total_won, pending, items, nextId, promo,
                               redemptions, refVars>>
       /\ \A u \in Users : balance[u] = ledger[u]]_vars

====
